---- MODULE Spec2Model ----
(***************************************************************************)
(* Model of the view composition of PokeBase (src/app.py): the pure        *)
(* derivations describe_evo_step and compute_type_matchups, and            *)
(* get_pokemon_data over a relational reference dataset.                   *)
(*                                                                         *)
(* Conventions                                                             *)
(*  - A text value is a sequence of one-character strings.                 *)
(*  - A nullable value (SQL NULL, Python None) is a sequence of length at  *)
(*    most one: <<>> is NULL/None and <<v>> is the value v.                *)
(*  - A Python float that is a multiple of 1/100 is kept as an integer     *)
(*    number of hundredths.                                                *)
(***************************************************************************)
EXTENDS Integers, Sequences, FiniteSets, TLC

VARIABLES
    pokemon,            \* table pokemon (the Forms): id -> row
    pokemon_forms,      \* tables pokemon_forms/pokemon_form_names: pokemon id -> rows
    pokemon_species,    \* tables pokemon_species/pokemon_species_names: id -> row
    pokemon_stats,      \* table pokemon_stats: pokemon id -> stat id -> base stat
    pokemon_types,      \* table pokemon_types: pokemon id -> type ids by slot
    type_efficacy,      \* table type_efficacy: (damage type, target type) -> factor
    pokemon_evolution,  \* table pokemon_evolution, with the joined names: rows
    pokemon_moves,      \* table pokemon_moves, with the joined move: rows
    encounter_rows,     \* the joined encounter rows: pokemon id -> bag of (version, location)
    call,               \* the call in progress: function name and argument
    ret,                \* the value that call returned
    requests,           \* the get_pokemon_data calls of the server's threads: call -> frame
    connections         \* the sqlite3 connections that are open

dataset == <<pokemon, pokemon_forms, pokemon_species, pokemon_stats, pokemon_types,
             type_efficacy, pokemon_evolution, pokemon_moves, encounter_rows>>
vars == <<pokemon, pokemon_forms, pokemon_species, pokemon_stats, pokemon_types,
          type_efficacy, pokemon_evolution, pokemon_moves, encounter_rows, call, ret,
          requests, connections>>

None == <<>>
Some(v) == <<v>>
IsNone(m) == m = <<>>
Val(m) == m[1]

----------------------------------------------------------------------------
(* Text *)

LowerLetters == <<"a","b","c","d","e","f","g","h","i","j","k","l","m",
                  "n","o","p","q","r","s","t","u","v","w","x","y","z">>
UpperLetters == <<"A","B","C","D","E","F","G","H","I","J","K","L","M",
                  "N","O","P","Q","R","S","T","U","V","W","X","Y","Z">>
Digits == <<"0","1","2","3","4","5","6","7","8","9">>

\* the code point ord(ch) of the characters the texts are made of; "*"
\* stands for the multiplication sign U+00D7
CharCode ==
    [ch \in {LowerLetters[i] : i \in 1..26} \cup {UpperLetters[i] : i \in 1..26}
              \cup {Digits[i] : i \in 1..10} \cup {" ", "*", ",", "-", ".", "/"} |->
        IF ch = " " THEN 32
        ELSE IF ch = "*" THEN 215
        ELSE IF ch = "," THEN 44
        ELSE IF ch = "-" THEN 45
        ELSE IF ch = "." THEN 46
        ELSE IF ch = "/" THEN 47
        ELSE IF \E i \in 1..10 : Digits[i] = ch
            THEN 47 + (CHOOSE i \in 1..10 : Digits[i] = ch)
        ELSE IF \E i \in 1..26 : UpperLetters[i] = ch
            THEN 64 + (CHOOSE i \in 1..26 : UpperLetters[i] = ch)
        ELSE 96 + (CHOOSE i \in 1..26 : LowerLetters[i] = ch)]

CodePoint(ch) == CharCode[ch]

IsLower(ch) == CharCode[ch] >= 97 /\ CharCode[ch] <= 122
IsUpper(ch) == CharCode[ch] >= 65 /\ CharCode[ch] <= 90
IsLetter(ch) == IsLower(ch) \/ IsUpper(ch)

\* str.upper() / str.lower() on one character
UpperCh(ch) == IF IsLower(ch) THEN UpperLetters[CharCode[ch] - 96] ELSE ch
LowerCh(ch) == IF IsUpper(ch) THEN LowerLetters[CharCode[ch] - 64] ELSE ch

\* str.lower()
Lower(s) == [i \in 1..Len(s) |-> LowerCh(s[i])]

\* str.capitalize(): first character upper-cased, the rest lower-cased
Capitalize(s) == [i \in 1..Len(s) |-> IF i = 1 THEN UpperCh(s[i]) ELSE LowerCh(s[i])]

\* str.title(): a letter that follows a non-letter (or starts the text) is
\* upper-cased, every other letter is lower-cased
Title(s) ==
    [i \in 1..Len(s) |->
        IF i = 1 \/ ~IsLetter(s[i-1]) THEN UpperCh(s[i]) ELSE LowerCh(s[i])]

\* str.replace("-", " ")
ReplaceHyphen(s) == [i \in 1..Len(s) |-> IF s[i] = "-" THEN " " ELSE s[i]]

\* the decimal text of a non-negative integer, as an f-string formats it
RECURSIVE DecStr(_)
DecStr(n) ==
    IF n < 10 THEN <<Digits[n + 1]>>
    ELSE DecStr(n \div 10) \o <<Digits[(n % 10) + 1]>>

\* sep.join(parts)
RECURSIVE Join(_, _)
Join(sep, parts) ==
    IF parts = <<>> THEN <<>>
    ELSE IF Len(parts) = 1 THEN parts[1]
    ELSE parts[1] \o sep \o Join(sep, Tail(parts))

\* s < t as Python compares str: by code point at the first difference, a
\* proper prefix being smaller
RECURSIVE TextLess(_, _)
TextLess(s, t) ==
    IF t = <<>> THEN FALSE
    ELSE IF s = <<>> THEN TRUE
    ELSE IF CodePoint(Head(s)) < CodePoint(Head(t)) THEN TRUE
    ELSE IF CodePoint(Head(s)) > CodePoint(Head(t)) THEN FALSE
    ELSE TextLess(Tail(s), Tail(t))

\* sorted(S) of a set of texts
RECURSIVE SortedTexts(_)
SortedTexts(S) ==
    IF S = {} THEN <<>>
    ELSE LET least == CHOOSE x \in S : \A y \in S \ {x} : TextLess(x, y)
         IN  <<least>> \o SortedTexts(S \ {least})

\* Python truthiness of a nullable number / a nullable text
TruthyNum(m) == ~IsNone(m) /\ Val(m) # 0
TruthyStr(m) == ~IsNone(m) /\ Val(m) # <<>>

\* `x or ""`
OrEmpty(m) == IF TruthyStr(m) THEN Val(m) ELSE <<>>

CommaSpace == <<",", " ">>
TxtLevel == <<"L","e","v","e","l"," ">>
TxtUse == <<"U","s","e"," ">>
TxtHolding == <<"H","o","l","d","i","n","g"," ">>
TxtHighFriendship == <<"H","i","g","h"," ","f","r","i","e","n","d","s","h","i","p">>
TxtKnows == <<"K","n","o","w","s"," ">>

----------------------------------------------------------------------------
(* describe_evo_step *)

\* the trigger fields tested as an if/elif chain: only the first present
\* field is described
EvoPartsExclusive(row) ==
    IF TruthyNum(row.minimum_level)
        THEN <<TxtLevel \o DecStr(Val(row.minimum_level))>>
    ELSE IF TruthyStr(row.item_name) THEN <<TxtUse \o Val(row.item_name)>>
    ELSE IF TruthyStr(row.held_item_name) THEN <<TxtHolding \o Val(row.held_item_name)>>
    ELSE IF TruthyNum(row.minimum_happiness) THEN <<TxtHighFriendship>>
    ELSE IF TruthyStr(row.known_move_name) THEN <<TxtKnows \o Val(row.known_move_name)>>
    ELSE IF TruthyStr(row.time_of_day) THEN <<Capitalize(Val(row.time_of_day))>>
    ELSE <<>>

\* the appends of describe_evo_step, in code order
EvoParts(row) ==
    LET lvl == row.minimum_level
        item == row.item_name
        held_item == row.held_item_name
        move_name == row.known_move_name
        happiness == row.minimum_happiness
        time_of_day == OrEmpty(row.time_of_day)
        p1 == IF TruthyNum(lvl) THEN <<TxtLevel \o DecStr(Val(lvl))>> ELSE <<>>
        p2 == IF TruthyStr(item) THEN Append(p1, TxtUse \o Val(item)) ELSE p1
        p3 == IF TruthyStr(held_item) THEN Append(p2, TxtHolding \o Val(held_item)) ELSE p2
        p4 == IF TruthyNum(happiness) THEN Append(p3, TxtHighFriendship) ELSE p3
        p5 == IF TruthyStr(move_name) THEN Append(p4, TxtKnows \o Val(move_name)) ELSE p4
        p6 == IF time_of_day # <<>> THEN Append(p5, Capitalize(time_of_day)) ELSE p5
    IN  p6

describe_evo_step(row) ==
    LET trigger == OrEmpty(row.trigger_identifier)
        parts0 == EvoParts(row)
        parts == IF parts0 = <<>> /\ trigger # <<>>
                 THEN <<Title(ReplaceHyphen(trigger))>>
                 ELSE parts0
    IN  Join(CommaSpace, parts)

----------------------------------------------------------------------------
(* compute_type_matchups *)

\* number of rows of table types (each with a localized name)
NTypes == 3
TypeIds == 1..NTypes

\* the rows of `types JOIN type_names ... ORDER BY t.id`
TypeRow(i) == [id |-> i, identifier |-> <<"t">> \o DecStr(i), name |-> <<"T">> \o DecStr(i)]
attack_types == [i \in TypeIds |-> TypeRow(i)]

\* round-half-even of a / b, the rounding of Python's round()
RoundDiv(a, b) ==
    LET q == a \div b
        r == a % b
    IN  IF 2 * r > b \/ (2 * r = b /\ q % 2 = 1) THEN q + 1 ELSE q

\* the rows `WHERE target_type_id IN (type_ids)` whose damage type is atk
EfficacyRows(eff, atk, type_ids) ==
    {tgt \in TypeIds : (\E i \in 1..Len(type_ids) : type_ids[i] = tgt) /\ ~IsNone(eff[<<atk, tgt>>])}

\* factors[atk] after the loop `factors[atk] *= damage_factor / 100.0`:
\* the numerator of the product; its denominator is 100 ^ (number of rows)
RECURSIVE FactorNumerator(_, _, _)
FactorNumerator(eff, atk, targets) ==
    IF targets = {} THEN 1
    ELSE LET tgt == CHOOSE t \in targets : TRUE
         IN  Val(eff[<<atk, tgt>>]) * FactorNumerator(eff, atk, targets \ {tgt})

\* round(factors.get(atk_id, 1.0), 2), in hundredths
Multiplier(eff, atk, type_ids) ==
    LET rows == EfficacyRows(eff, atk, type_ids)
    IN  RoundDiv(FactorNumerator(eff, atk, rows) * 100, 100 ^ Cardinality(rows))

\* f"{mult:g}" of a number of hundredths: trailing zeros and a trailing
\* point are trimmed
FormatG(h) ==
    LET ip == DecStr(h \div 100)
        f == h % 100
    IN  IF f = 0 THEN ip
        ELSE IF f % 10 = 0 THEN ip \o <<".">> \o DecStr(f \div 10)
        ELSE ip \o <<".", Digits[(f \div 10) + 1], Digits[(f % 10) + 1]>>

\* the multiplication sign U+00D7 that starts a label
TimesSign == "*"

MatchupEntry(row, mult) ==
    [identifier |-> row.identifier, name |-> row.name, multiplier |-> mult,
     label |-> <<TimesSign>> \o FormatG(mult)]

\* three independent `if`s instead of if / elif / elif
ListsOfNoElif(mult) ==
    (IF mult = 0 THEN {"immune"} ELSE {})
        \cup (IF mult > 101 THEN {"weak"} ELSE {})
        \cup (IF mult < 99 THEN {"resist"} ELSE {})

\* the lists an entry of multiplier mult (hundredths) is appended to
ListsOf(mult) ==
    IF mult = 0 THEN {"immune"}
    ELSE IF mult > 101 THEN {"weak"}
    ELSE IF mult < 99 THEN {"resist"}
    ELSE {}

\* the entries appended to list `which` by the loop over attack_types
RECURSIVE Appended(_, _, _, _)
Appended(eff, type_ids, which, n) ==
    IF n = 0 THEN <<>>
    ELSE LET before == Appended(eff, type_ids, which, n - 1)
             mult == Multiplier(eff, attack_types[n].id, type_ids)
         IN  IF which \in ListsOf(mult)
             THEN Append(before, MatchupEntry(attack_types[n], mult))
             ELSE before

\* list.sort(key=multiplier), stable: x goes after every entry whose key is
\* not greater
RECURSIVE SortAscending(_)
SortAscending(s) ==
    IF s = <<>> THEN <<>>
    ELSE LET rest == SortAscending(SubSeq(s, 1, Len(s) - 1))
             x == s[Len(s)]
             k == Cardinality({i \in 1..Len(rest) : rest[i].multiplier <= x.multiplier})
         IN  SubSeq(rest, 1, k) \o <<x>> \o SubSeq(rest, k + 1, Len(rest))

\* list.sort(key=multiplier, reverse=True), stable: x goes after every entry
\* whose key is not smaller
RECURSIVE SortDescending(_)
SortDescending(s) ==
    IF s = <<>> THEN <<>>
    ELSE LET rest == SortDescending(SubSeq(s, 1, Len(s) - 1))
             x == s[Len(s)]
             k == Cardinality({i \in 1..Len(rest) : rest[i].multiplier >= x.multiplier})
         IN  SubSeq(rest, 1, k) \o <<x>> \o SubSeq(rest, k + 1, Len(rest))

\* reverse=True forgotten
SortWeakAscending(s) == SortAscending(s)

SortWeak(s) == SortDescending(s)
SortResist(s) == SortAscending(s)

EmptyMatchups == [weak |-> <<>>, resist |-> <<>>, immune |-> <<>>]

\* compute_type_matchups(conn, types_rows) against table eff
compute_type_matchups(eff, types_rows) ==
    IF types_rows = <<>> THEN EmptyMatchups
    ELSE LET type_ids == [i \in 1..Len(types_rows) |-> types_rows[i].id]
         IN  [weak |-> SortWeak(Appended(eff, type_ids, "weak", NTypes)),
              resist |-> SortResist(Appended(eff, type_ids, "resist", NTypes)),
              immune |-> Appended(eff, type_ids, "immune", NTypes)]

----------------------------------------------------------------------------
(* the stat loop of get_pokemon_data *)

MAX_STAT_VIS == 180

Max(a, b) == IF a >= b THEN a ELSE b
Min(a, b) == IF a <= b THEN a ELSE b

\* the lower clamp forgotten
StatPercentNoFloor(base_val) ==
    Min((base_val * 100) \div MAX_STAT_VIS, 100)

\* pct = int(base_val / MAX_STAT_VIS * 100) if MAX_STAT_VIS else 0, clamped.
\* int() truncates; for 0 <= base_val <= 206 the float quotient truncates
\* to the exact floor, and from 181 on the clamp yields 100 either way.
StatPercent(base_val) ==
    LET pct == IF MAX_STAT_VIS # 0 THEN (base_val * 100) \div MAX_STAT_VIS ELSE 0
    IN  Max(5, Min(pct, 100))

\* one entry of the stats list; bounds is mins_maxs.get(stat_id, (0, 255))
StatEntry(row, bounds) ==
    [id |-> row.stat_id, identifier |-> row.stat_identifier, name |-> row.stat_name,
     value |-> row.base_stat, min |-> bounds[1], max |-> bounds[2],
     percent |-> StatPercent(row.base_stat)]

----------------------------------------------------------------------------
(* The reference dataset *)

LANG_EN == 9
BW_VERSION_GROUP_ID == 11
LEVELUP_METHOD_ID == 1
\* `LIMIT 40` of the encounter query and the `[:5]` of the location lists
ENCOUNTER_LIMIT == 40
LOCATION_CAP == 5

\* rows of pokemon_species, of pokemon (the Forms) and of stats
NSpecies == 3
NPokemon == 3
NStats == 6
SpeciesIds == 1..NSpecies
PokemonIds == 1..NPokemon
StatIds == 1..NStats

\* a row of `pokemon_stats JOIN stats JOIN stat_names`
StatRow(stat_id, base_val) ==
    [stat_id |-> stat_id, stat_identifier |-> <<"s">> \o DecStr(stat_id),
     stat_name |-> <<"S">> \o DecStr(stat_id), base_stat |-> base_val]

\* the result sets of `fetchone()` on a query whose rows are the set S and
\* whose order among them SQL leaves open
FetchOne(S) == IF S = {} THEN {None} ELSE {Some(r) : r \in S}

\* the result sets of `fetchall()` on a query `ORDER BY Key` whose rows are
\* numbered by K: every order of K that ascends in Key
OrderedFetches(K, Key(_)) ==
    {f \in [1..Cardinality(K) -> K] :
        /\ \A i, j \in 1..Cardinality(K) : i # j => f[i] # f[j]
        /\ \A i, j \in 1..Cardinality(K) : i < j => Key(f[i]) <= Key(f[j])}

SpeciesNamed(sid) == sid \in SpeciesIds /\ ~IsNone(pokemon_species[sid].name)

\* COALESCE(pfn.pokemon_name, psn.name)
Coalesce(a, b) == IF IsNone(a) THEN b ELSE Val(a)

\* the rows `pokemon p LEFT JOIN pokemon_forms pf LEFT JOIN pokemon_form_names
\* pfn JOIN pokemon_species_names psn` has for pokemon p, numbered: one per
\* pokemon_forms row, one in all when there is none, none when the species
\* has no localized name
FormJoinRows(p) ==
    IF ~SpeciesNamed(pokemon[p].species_id) THEN {}
    ELSE IF pokemon_forms[p] = <<>> THEN {<<p, 1>>}
    ELSE {<<p, i>> : i \in 1..Len(pokemon_forms[p])}

FormDisplayName(k) ==
    LET psn == Val(pokemon_species[pokemon[k[1]].species_id].name)
    IN  IF pokemon_forms[k[1]] = <<>> THEN psn
        ELSE Coalesce(pokemon_forms[k[1]][k[2]], psn)

\* get_pokemon_basic(conn, identifier): the rows `WHERE p.identifier = ?
\* LIMIT 1` can return
get_pokemon_basic(identifier) ==
    FetchOne({[id |-> k[1], identifier |-> pokemon[k[1]].identifier,
               species_id |-> pokemon[k[1]].species_id,
               display_name |-> FormDisplayName(k)] :
                 k \in UNION {FormJoinRows(p) :
                        p \in {q \in PokemonIds : pokemon[q].identifier = Lower(identifier)}}})

\* stat_rows: the stat rows of the Form, ORDER BY ps.stat_id
RECURSIVE StatRowsUpTo(_, _)
StatRowsUpTo(pokemon_id, n) ==
    IF n = 0 THEN <<>>
    ELSE IF IsNone(pokemon_stats[pokemon_id][n]) THEN StatRowsUpTo(pokemon_id, n - 1)
    ELSE Append(StatRowsUpTo(pokemon_id, n - 1), StatRow(n, Val(pokemon_stats[pokemon_id][n])))

\* not found unless all six stat rows are there
NoStatsIncomplete(stat_rows) == Len(stat_rows) # 6

\* `if not stat_rows`
NoStats(stat_rows) == stat_rows = <<>>

\* mins_maxs.get(stat_id, (0, 255)): MIN/MAX(base_stat) GROUP BY stat_id
MinsMaxs(stat_id) ==
    LET vals == {Val(pokemon_stats[q][stat_id]) :
                    q \in {r \in PokemonIds : ~IsNone(pokemon_stats[r][stat_id])}}
    IN  IF vals = {} THEN <<0, 255>>
        ELSE <<CHOOSE v \in vals : \A w \in vals : v <= w,
               CHOOSE v \in vals : \A w \in vals : v >= w>>

RECURSIVE SumBase(_)
SumBase(stat_rows) ==
    IF stat_rows = <<>> THEN 0 ELSE Head(stat_rows).base_stat + SumBase(Tail(stat_rows))

\* evolution edges: the numbers of the pokemon_evolution rows joined to a
\* Species (`JOIN pokemon_species to_ps`) of chain evo_chain_id
EvolutionRowKeys(evo_chain_id) ==
    {i \in 1..Len(pokemon_evolution) :
        /\ pokemon_evolution[i].evolved_species_id \in SpeciesIds
        /\ pokemon_species[pokemon_evolution[i].evolved_species_id].evolution_chain_id
              = Some(evo_chain_id)}

SpeciesRef(sid) ==
    [species_id |-> sid, identifier |-> pokemon_species[sid].identifier,
     name |-> pokemon_species[sid].name]

\* the join written `ON from_ps.id = to_ps.id`
FromSpeciesSelf(to_id) ==
    Some([species_id |-> to_id, identifier |-> pokemon_species[to_id].identifier,
          name |-> pokemon_species[to_id].name])

\* `LEFT JOIN pokemon_species from_ps ON from_ps.id = to_ps.evolves_from_species_id`
FromSpecies(to_id) ==
    LET ef == pokemon_species[to_id].evolves_from_species_id
    IN  IF ~IsNone(ef) /\ Val(ef) \in SpeciesIds THEN Some(SpeciesRef(Val(ef))) ELSE None

EvolutionEdge(row) ==
    [from |-> FromSpecies(row.evolved_species_id),
     to |-> SpeciesRef(row.evolved_species_id),
     condition |-> describe_evo_step(row)]

\* the ORDER BY clause left out: the rows come as the table holds them
EvolutionFetchesUnordered(K) ==
    OrderedFetches(K, LAMBDA i : i)

\* `ORDER BY to_ps.id`
EvolutionFetches(K) ==
    OrderedFetches(K, LAMBDA i : pokemon_evolution[i].evolved_species_id)

\* the lists evolution_edges can be; `if evo_chain_id:` skips NULL and 0
EvolutionEdges(evo_chain_id) ==
    IF IsNone(evo_chain_id) \/ Val(evo_chain_id) = 0 THEN {<<>>}
    ELSE {[n \in 1..Len(f) |-> EvolutionEdge(pokemon_evolution[f[n]])] :
            f \in EvolutionFetches(EvolutionRowKeys(Val(evo_chain_id)))}

\* the clause `AND pm.pokemon_move_method_id = ?` left out
MoveRowKeysAnyMethod(pokemon_id) ==
    {i \in 1..Len(pokemon_moves) :
        /\ pokemon_moves[i].pokemon_id = pokemon_id
        /\ pokemon_moves[i].version_group_id = BW_VERSION_GROUP_ID}

\* moves: the rows of the Form for the Black & White version group and the
\* level-up method
MoveRowKeys(pokemon_id) ==
    {i \in 1..Len(pokemon_moves) :
        /\ pokemon_moves[i].pokemon_id = pokemon_id
        /\ pokemon_moves[i].version_group_id = BW_VERSION_GROUP_ID
        /\ pokemon_moves[i].pokemon_move_method_id = LEVELUP_METHOD_ID}

\* `ORDER BY pm.level, m.identifier`
MoveBefore(i, j) ==
    \/ pokemon_moves[i].level < pokemon_moves[j].level
    \/ /\ pokemon_moves[i].level = pokemon_moves[j].level
       /\ TextLess(pokemon_moves[i].move_identifier, pokemon_moves[j].move_identifier)

RECURSIVE MovesOf(_)
MovesOf(K) ==
    IF K = {} THEN <<>>
    ELSE LET firsts == {i \in K : \A j \in K : ~MoveBefore(j, i)}
             i == CHOOSE x \in firsts : \A y \in firsts : x <= y
             r == pokemon_moves[i]
         IN  <<[name |-> Title(ReplaceHyphen(Coalesce(r.move_name, r.move_identifier))),
                level |-> r.level]>> \o MovesOf(K \ {i})

\* forms: the lists the sibling query `ORDER BY p.id` can return, emptied
\* when they hold at most one row
FormsLists(species_id) ==
    LET K == UNION {FormJoinRows(p) :
                      p \in {q \in PokemonIds : pokemon[q].species_id = species_id}}
        lists == {[n \in 1..Len(f) |->
                      [identifier |-> pokemon[f[n][1]].identifier,
                       name |-> FormDisplayName(f[n]),
                       is_default |-> pokemon[f[n][1]].is_default # 0]] :
                    f \in OrderedFetches(K, LAMBDA k : k[1])}
    IN  {IF Len(forms) <= 1 THEN <<>> ELSE forms : forms \in lists}

\* encounters: the version and location names of the dataset
V_black == <<"B","l","a","c","k">>
V_white == <<"W","h","i","t","e">>
VersionNames == {V_black, V_white}
L_route1 == <<"R","o","u","t","e"," ","1">>
L_route10 == <<"R","o","u","t","e"," ","1","0">>
L_route2 == <<"R","o","u","t","e"," ","2">>
L_dreamyard == <<"D","r","e","a","m","y","a","r","d">>
L_victory == <<"V","i","c","t","o","r","y"," ","R","o","a","d">>
L_pinwheel == <<"P","i","n","w","h","e","e","l"," ","F","o","r","e","s","t">>
LocationNames == {L_route1, L_route10, L_route2, L_dreamyard, L_victory, L_pinwheel}
EncPairs == VersionNames \X LocationNames

RECURSIVE BagSize(_, _)
BagSize(bag, S) ==
    IF S = {} THEN 0
    ELSE LET x == CHOOSE y \in S : TRUE IN bag[x] + BagSize(bag, S \ {x})

\* what `LIMIT 40` without ORDER BY can fetch from the bag of joined rows,
\* as the set of distinct (version, location) pairs among the fetched rows:
\* any min(40, total) rows, so any set of pairs that has that many rows at
\* most one per pair and at least that many rows in all
EncounterFetches(bag) ==
    LET present == {pr \in EncPairs : bag[pr] > 0}
        fetched == Min(BagSize(bag, present), ENCOUNTER_LIMIT)
    IN  {S \in SUBSET present : Cardinality(S) <= fetched /\ fetched <= BagSize(bag, S)}

\* the `[:5]` left out
EncounterLocationsUncapped(S, ver) ==
    SortedTexts({pr[2] : pr \in {q \in S : q[1] = ver}})

\* sorted(locs)[:5] of encounter_map[ver]
EncounterLocations(S, ver) ==
    LET locs == SortedTexts({pr[2] : pr \in {q \in S : q[1] = ver}})
    IN  SubSeq(locs, 1, Min(Len(locs), LOCATION_CAP))

\* encounters, sorted by version, of the fetched pairs S
Encounters(S) ==
    LET vers == SortedTexts({pr[1] : pr \in S})
    IN  [n \in 1..Len(vers) |->
            [version |-> vers[n], locations |-> EncounterLocations(S, vers[n])]]

\* nav_prev / nav_next: the nearest Species with a localized name
NavEntry(sid) ==
    [dex |-> sid, identifier |-> pokemon_species[sid].identifier,
     name |-> Val(pokemon_species[sid].name)]

NavPrev(species_id) ==
    LET c == {sid \in SpeciesIds : SpeciesNamed(sid) /\ sid < species_id}
    IN  IF c = {} THEN None ELSE Some(NavEntry(CHOOSE x \in c : \A y \in c : x >= y))

NavNext(species_id) ==
    LET c == {sid \in SpeciesIds : SpeciesNamed(sid) /\ sid > species_id}
    IN  IF c = {} THEN None ELSE Some(NavEntry(CHOOSE x \in c : \A y \in c : x <= y))

SpriteUrl(pokemon_id) ==
    <<"/","s","t","a","t","i","c","/","s","p","r","i","t","e","s","/">>
        \o DecStr(pokemon_id) \o <<".","p","n","g">>

\* the returned dict. The abilities, the egg groups, the flavor text and the
\* growth rate, capture rate, happiness, generation and region of the Species
\* are single look-ups of further tables and are left out.
View(base, evolution_edges, forms, fetched) ==
    LET stat_rows == StatRowsUpTo(base.id, NStats)
        type_rows == [n \in 1..Len(pokemon_types[base.id]) |-> TypeRow(pokemon_types[base.id][n])]
    IN  [identifier |-> base.identifier,
         display_name |-> base.display_name,
         dex |-> base.species_id,
         stats |-> [n \in 1..Len(stat_rows) |->
                      StatEntry(stat_rows[n], MinsMaxs(stat_rows[n].stat_id))],
         total |-> SumBase(stat_rows),
         types |-> [n \in 1..Len(type_rows) |->
                      [identifier |-> type_rows[n].identifier, name |-> type_rows[n].name]],
         sprite_url |-> SpriteUrl(base.id),
         moves |-> MovesOf(MoveRowKeys(base.id)),
         evolutions |-> evolution_edges,
         type_matchups |-> compute_type_matchups(type_efficacy, type_rows),
         forms |-> forms,
         nav_prev |-> NavPrev(base.species_id),
         nav_next |-> NavNext(base.species_id),
         encounters |-> Encounters(fetched)]

\* get_pokemon_data from the row get_pokemon_basic returned: the values it
\* can return
ComposeFrom(b) ==
    IF IsNone(b) THEN {None}
    ELSE IF NoStats(StatRowsUpTo(Val(b).id, NStats)) THEN {None}
    ELSE {Some(View(Val(b), ev, forms, fetched)) :
            ev \in EvolutionEdges(pokemon_species[Val(b).species_id].evolution_chain_id),
            forms \in FormsLists(Val(b).species_id),
            fetched \in EncounterFetches(encounter_rows[Val(b).id])}

\* get_pokemon_data(identifier): the values it can return
get_pokemon_data(identifier) ==
    UNION {ComposeFrom(b) : b \in get_pokemon_basic(identifier)}

----------------------------------------------------------------------------
(* Inputs of describe_evo_step *)

S_levelup == <<"l","e","v","e","l","-","u","p">>
S_trade == <<"t","r","a","d","e">>
S_item == <<"F","i","r","e"," ","S","t","o","n","e">>
S_held == <<"U","p","-","G","r","a","d","e">>
S_move == <<"R","o","l","l","o","u","t">>
S_day == <<"d","a","y">>
S_night == <<"n","i","g","h","t">>

----------------------------------------------------------------------------
(* A dataset: the tables a specification does not vary are these *)

SpeciesIdent(sid) == <<"s","p">> \o DecStr(sid)
SpeciesName(sid) == <<"S","p">> \o DecStr(sid)

\* the slug of pokemon p of Species sid: the Species identifier, or the
\* identifier with a suffix of the Form
PokemonSlug(p, sid, suffixed) ==
    IF suffixed THEN SpeciesIdent(sid) \o <<"-", LowerLetters[p]>> ELSE SpeciesIdent(sid)

\* one chain: each Species evolves from the one before it
DefaultSpecies ==
    [sid \in SpeciesIds |->
        [id |-> sid, identifier |-> SpeciesIdent(sid), name |-> Some(SpeciesName(sid)),
         evolution_chain_id |-> Some(1),
         evolves_from_species_id |-> IF sid = 1 THEN None ELSE Some(sid - 1)]]

\* pokemon p is the default Form of Species p; the Forms beyond the Species
\* are further Forms of the last Species
DefaultPokemon ==
    [p \in PokemonIds |->
        [id |-> p, identifier |-> PokemonSlug(p, Min(p, NSpecies), p > NSpecies),
         species_id |-> Min(p, NSpecies), is_default |-> IF p > NSpecies THEN 0 ELSE 1]]

DefaultForms == [p \in PokemonIds |-> <<None>>]

FullStats(p) == [st \in StatIds |-> Some(30 + 10 * st + p)]
DefaultStats == [p \in PokemonIds |-> FullStats(p)]

DefaultTypes == [p \in PokemonIds |-> IF p = 1 THEN <<1>> ELSE <<2, 1>>]

DefaultEfficacy ==
    [pr \in TypeIds \X TypeIds |->
        IF pr[1] = pr[2] THEN Some(50)
        ELSE IF pr[1] = 1 THEN Some(200)
        ELSE IF pr[1] = 2 /\ pr[2] = 1 THEN Some(0)
        ELSE Some(100)]

\* a pokemon_evolution row, with the joined trigger, item and move names
EvoRow(evolved, trigger, lvl, happiness, time, item, held, move) ==
    [evolved_species_id |-> evolved, trigger_identifier |-> trigger,
     minimum_level |-> lvl, minimum_happiness |-> happiness, time_of_day |-> time,
     item_name |-> item, held_item_name |-> held, known_move_name |-> move]

\* the trigger fields of the row at position i of the table
EvoRowAt(i, evolved) ==
    IF i % 2 = 1
    THEN EvoRow(evolved, Some(S_levelup), Some(16), None, None, None, None, None)
    ELSE EvoRow(evolved, Some(S_trade), None, None, None, None, Some(S_held), None)

DefaultEvolution ==
    [i \in 1..(NSpecies - 1) |-> EvoRowAt(i, i + 1)]

M_tackle == <<"t","a","c","k","l","e">>
M_tailwhip == <<"t","a","i","l","-","w","h","i","p">>
M_growl == <<"g","r","o","w","l">>

MoveRow(p, vg, method, lvl, ident, name) ==
    [pokemon_id |-> p, version_group_id |-> vg, pokemon_move_method_id |-> method,
     level |-> lvl, move_identifier |-> ident, move_name |-> name]

DefaultMoves ==
    << MoveRow(1, BW_VERSION_GROUP_ID, LEVELUP_METHOD_ID, 7, M_tailwhip, None),
       MoveRow(1, BW_VERSION_GROUP_ID, LEVELUP_METHOD_ID, 1, M_tackle, Some(<<"T","a","c","k","l","e">>)),
       MoveRow(1, BW_VERSION_GROUP_ID, LEVELUP_METHOD_ID, 1, M_growl, None),
       MoveRow(1, BW_VERSION_GROUP_ID + 1, LEVELUP_METHOD_ID, 3, M_growl, None),
       MoveRow(1, BW_VERSION_GROUP_ID, LEVELUP_METHOD_ID + 1, 0, M_growl, None),
       MoveRow(2, BW_VERSION_GROUP_ID, LEVELUP_METHOD_ID, 1, M_tackle, None) >>

NoEncounters == [pr \in EncPairs |-> 0]
DefaultEncounters ==
    [p \in PokemonIds |->
        IF p = 1
        THEN [pr \in EncPairs |-> IF pr[2] \in {L_route1, L_route2} THEN 1 ELSE 0]
        ELSE NoEncounters]

DefaultCreatures ==
    /\ pokemon = DefaultPokemon
    /\ pokemon_forms = DefaultForms
    /\ pokemon_stats = DefaultStats

DefaultSpeciesTables ==
    /\ pokemon_species = DefaultSpecies
    /\ pokemon_evolution = DefaultEvolution

DefaultOthers ==
    /\ pokemon_types = DefaultTypes
    /\ pokemon_moves = DefaultMoves

EvoRows ==
    [ trigger_identifier : {None, Some(<<>>), Some(S_levelup), Some(S_trade)},
      minimum_level      : {None, Some(0), Some(7), Some(16)},
      item_name          : {None, Some(<<>>), Some(S_item)},
      held_item_name     : {None, Some(S_held)},
      known_move_name    : {None, Some(S_move)},
      minimum_happiness  : {None, Some(0), Some(220)},
      time_of_day        : {None, Some(<<>>), Some(S_day), Some(S_night)} ]

NoCall == [fn |-> "none", arg |-> None]

\* the calls of get_pokemon_data that the threads of the server run side by
\* side, and the frame of a call: its position, its argument and its locals
NCalls == 2
Calls == 1..NCalls
NotCalled ==
    [pc |-> "idle", identifier |-> None, conn |-> None, base |-> None,
     evolution_edges |-> <<>>, forms |-> <<>>, fetched |-> {}, result |-> None]

\* no thread runs get_pokemon_data and no connection is open
NoRequests ==
    /\ requests = [t \in Calls |-> NotCalled]
    /\ connections = {}

\* the caller takes the returned value; the next call can start
Return ==
    /\ call # NoCall
    /\ call' = NoCall
    /\ ret' = None
    /\ UNCHANGED <<dataset, requests, connections>>

InitEvoStep ==
    /\ DefaultCreatures /\ DefaultSpeciesTables /\ DefaultOthers
    /\ type_efficacy = DefaultEfficacy
    /\ encounter_rows = DefaultEncounters
    /\ call = NoCall
    /\ ret = None
    /\ NoRequests

DescribeEvoStep ==
    /\ call = NoCall
    /\ \E row \in EvoRows :
        /\ call' = [fn |-> "describe_evo_step", arg |-> row]
        /\ ret' = describe_evo_step(row)
    /\ UNCHANGED <<dataset, requests, connections>>

NextEvoStep == DescribeEvoStep \/ Return

SpecEvoStep == InitEvoStep /\ [][NextEvoStep]_vars

----------------------------------------------------------------------------
(* Inputs of compute_type_matchups *)

\* damage factors against the first and against the second type; no other
\* type is the target of a row (a missing row leaves the factor at 1.0).
\* No product of these factors lies halfway between two hundredths, where
\* the binary float of the product decides the direction round() takes.
FactorsFirst == {Some(0), Some(2), Some(50), Some(200)}
FactorsSecond == {Some(2), Some(100), Some(200)}

EfficacyTables ==
    {[pr \in TypeIds \X TypeIds |->
        IF pr[2] = 1 THEN f1[pr[1]] ELSE IF pr[2] = 2 THEN f2[pr[1]] ELSE None] :
            f1 \in [TypeIds -> FactorsFirst], f2 \in [TypeIds -> FactorsSecond]}

\* the type rows of a Form, slot-ordered: zero, one or two distinct types
\* among the first three
TypesRowsInputs ==
    {<<>>} \cup {<<TypeRow(i)>> : i \in 1..3}
           \cup {<<TypeRow(pr[1]), TypeRow(pr[2])>> :
                    pr \in {q \in (1..3) \X (1..3) : q[1] # q[2]}}

InitTypes ==
    /\ DefaultCreatures /\ DefaultSpeciesTables /\ DefaultOthers
    /\ encounter_rows = DefaultEncounters
    /\ type_efficacy \in EfficacyTables
    /\ call = NoCall
    /\ ret = None
    /\ NoRequests

ComputeTypeMatchups ==
    /\ call = NoCall
    /\ \E types_rows \in TypesRowsInputs :
        /\ call' = [fn |-> "compute_type_matchups", arg |-> types_rows]
        /\ ret' = compute_type_matchups(type_efficacy, types_rows)
    /\ UNCHANGED <<dataset, requests, connections>>

NextTypes == ComputeTypeMatchups \/ Return

SpecTypes == InitTypes /\ [][NextTypes]_vars

----------------------------------------------------------------------------
(* Calls of get_pokemon_data *)

\* the identifiers asked for: every Form slug and Species identifier of the
\* dataset, the slug of the first Form with a capital first letter, and one
\* identifier unknown to the dataset
QueryIdentifiers ==
    {pokemon[p].identifier : p \in PokemonIds}
        \cup {pokemon_species[sid].identifier : sid \in SpeciesIds}
        \cup {Capitalize(pokemon[1].identifier), <<"q","w","e","r","t","y">>}

GetPokemonData ==
    /\ call = NoCall
    /\ \E identifier \in QueryIdentifiers :
        \E data \in get_pokemon_data(identifier) :
            /\ call' = [fn |-> "get_pokemon_data", arg |-> identifier]
            /\ ret' = data
    /\ UNCHANGED <<dataset, requests, connections>>

NextView == GetPokemonData \/ Return

\* Forms: the Species with and without a localized name; the first two Forms
\* with their Species, slug, stat rows and pokemon_forms rows drawn
PartialStats(p) == [st \in StatIds |-> IF st <= 3 THEN Some(30 + 10 * st + p) ELSE None]
NoStatRows == [st \in StatIds |-> None]
F_alpha == <<"A","l","p","h","a">>
F_beta == <<"B","e","t","a">>

InitForms ==
    /\ DefaultOthers
    /\ type_efficacy = DefaultEfficacy
    /\ encounter_rows = DefaultEncounters
    /\ pokemon_evolution = DefaultEvolution
    /\ \E named \in [SpeciesIds -> BOOLEAN] :
         pokemon_species =
            [sid \in SpeciesIds |->
                [DefaultSpecies[sid] EXCEPT !.name = IF named[sid] THEN @ ELSE None]]
    /\ \E sp1 \in {1, 2}, suffixed1 \in BOOLEAN, suffixed2 \in BOOLEAN :
         /\ pokemon =
              [p \in PokemonIds |->
                 IF p = 1 THEN [id |-> 1, identifier |-> PokemonSlug(1, sp1, suffixed1),
                                species_id |-> sp1, is_default |-> IF suffixed1 THEN 0 ELSE 1]
                 ELSE IF p = 2 THEN [id |-> 2, identifier |-> PokemonSlug(2, 2, suffixed2),
                                     species_id |-> 2, is_default |-> 1]
                 ELSE DefaultPokemon[p]]
         /\ PokemonSlug(1, sp1, suffixed1) # PokemonSlug(2, 2, suffixed2)
    /\ \E st1 \in {NoStatRows, PartialStats(1), FullStats(1)}, st2 \in {NoStatRows, FullStats(2)} :
         pokemon_stats =
            [p \in PokemonIds |-> IF p = 1 THEN st1 ELSE IF p = 2 THEN st2 ELSE FullStats(p)]
    /\ \E f1 \in {<<>>, <<None>>, <<Some(F_alpha), None>>},
          f2 \in {<<None>>, <<Some(F_alpha), Some(F_beta)>>} :
         pokemon_forms =
            [p \in PokemonIds |-> IF p = 1 THEN f1 ELSE IF p = 2 THEN f2 ELSE <<None>>]
    /\ call = NoCall
    /\ ret = None
    /\ NoRequests

SpecForms == InitForms /\ [][NextView]_vars

\* Navigation: the Species with and without a localized name, and the slugs
\* of the Forms drawn; every Form has its stat rows
InitNav ==
    /\ DefaultOthers
    /\ type_efficacy = DefaultEfficacy
    /\ encounter_rows = DefaultEncounters
    /\ pokemon_evolution = DefaultEvolution
    /\ pokemon_forms = DefaultForms
    /\ pokemon_stats = DefaultStats
    /\ \E named \in [SpeciesIds -> BOOLEAN] :
         pokemon_species =
            [sid \in SpeciesIds |->
                [DefaultSpecies[sid] EXCEPT !.name = IF named[sid] THEN @ ELSE None]]
    /\ \E suffixed \in [PokemonIds -> BOOLEAN] :
         pokemon =
            [p \in PokemonIds |->
                [DefaultPokemon[p] EXCEPT
                    !.identifier = PokemonSlug(p, DefaultPokemon[p].species_id,
                                               suffixed[p] \/ p > NSpecies)]]
    /\ call = NoCall
    /\ ret = None
    /\ NoRequests

SpecNav == InitNav /\ [][NextView]_vars

\* Evolutions: the chain and the predecessor of the first three Species and
\* the pokemon_evolution rows drawn
MaxEvoRows == 3

EvolutionTables ==
    UNION {{[i \in 1..n |-> EvoRowAt(i, f[i])] : f \in [1..n -> 1..3]} : n \in 0..MaxEvoRows}

InitEvo ==
    /\ DefaultCreatures /\ DefaultOthers
    /\ type_efficacy = DefaultEfficacy
    /\ encounter_rows = DefaultEncounters
    /\ pokemon_evolution \in EvolutionTables
    /\ \E from1 \in {None, Some(2)},
          chain2 \in {Some(1), Some(2)}, from2 \in {None, Some(1), Some(3)},
          chain3 \in {None, Some(0), Some(1)}, from3 \in {None, Some(2), Some(NSpecies + 1)} :
         pokemon_species =
            [sid \in SpeciesIds |->
                [id |-> sid, identifier |-> SpeciesIdent(sid), name |-> Some(SpeciesName(sid)),
                 evolution_chain_id |->
                    IF sid = 1 THEN Some(1) ELSE IF sid = 2 THEN chain2
                    ELSE IF sid = 3 THEN chain3 ELSE Some(sid),
                 evolves_from_species_id |->
                    IF sid = 1 THEN from1 ELSE IF sid = 2 THEN from2
                    ELSE IF sid = 3 THEN from3 ELSE None]]
    /\ call = NoCall
    /\ ret = None
    /\ NoRequests

SpecEvo == InitEvo /\ [][NextView]_vars

\* Encounters: the joined rows of the first Form drawn: one row for each of
\* any locations in White and of any of two locations in Black, and possibly
\* one pair with as many rows as the query fetches, or one fewer
HeavyPairs == {<<V_black, L_route1>>, <<V_white, L_pinwheel>>}

EncounterBags ==
    {[pr \in EncPairs |->
        IF heavy # {} /\ pr \in heavy
            THEN (IF pr[1] = V_black THEN ENCOUNTER_LIMIT ELSE ENCOUNTER_LIMIT - 1)
        ELSE IF pr[1] = V_white /\ pr[2] \in white THEN 1
        ELSE IF pr[1] = V_black /\ pr[2] \in black THEN 1
        ELSE 0] :
       white \in SUBSET LocationNames, black \in SUBSET {L_route1, L_route10},
       heavy \in {{}} \cup {{h} : h \in HeavyPairs}}

InitEnc ==
    /\ DefaultCreatures /\ DefaultSpeciesTables /\ DefaultOthers
    /\ type_efficacy = DefaultEfficacy
    /\ \E bag \in EncounterBags :
         encounter_rows = [p \in PokemonIds |-> IF p = 1 THEN bag ELSE NoEncounters]
    /\ call = NoCall
    /\ ret = None
    /\ NoRequests

SpecEnc == InitEnc /\ [][NextView]_vars

----------------------------------------------------------------------------
(* C1, C5, C6 *)

ViewCall == call.fn = "get_pokemon_data"
ViewReturned == ViewCall /\ ~IsNone(ret)

\* the Forms whose slug equals the lower-cased identifier of the call
MatchedForms == {p \in PokemonIds : pokemon[p].identifier = Lower(call.arg)}

StatRowCount(p) == Cardinality({st \in StatIds : ~IsNone(pokemon_stats[p][st])})

\* C1 as claimed: None is returned if and only if no Form slug equals the
\* lower-cased identifier or the matched Form has not exactly 6 stat rows,
\* and the stats of a returned view are 6.
C1_Original ==
    ViewCall =>
        /\ IsNone(ret) <=> (MatchedForms = {} \/ \E p \in MatchedForms : StatRowCount(p) # 6)
        /\ ~IsNone(ret) => Len(Val(ret).stats) = 6

\* C1: get_pokemon_data returns None if and only if no Form slug equals the
\* lower-cased identifier, or the Species of the matched Form has no
\* localized name, or the matched Form has no stat row at all; in every other
\* case it returns a view whose stats list has one entry for each stat row of
\* the Form, at least one.
C1_Amended ==
    ViewCall =>
        /\ IsNone(ret) <=>
              \A p \in MatchedForms :
                  ~SpeciesNamed(pokemon[p].species_id) \/ StatRowCount(p) = 0
        /\ ~IsNone(ret) =>
              \E p \in MatchedForms :
                  /\ Val(ret).identifier = pokemon[p].identifier
                  /\ Len(Val(ret).stats) = StatRowCount(p)
                  /\ StatRowCount(p) >= 1

\* a view returned, for an identifier given with a capital letter, of a Form
\* with three stat rows
C1_Witness ==
    /\ ViewReturned
    /\ call.arg # Lower(call.arg)
    /\ Len(Val(ret).stats) = 3

\* C5: for a returned view with a nav_prev, get_pokemon_data of nav_prev's
\* identifier returns a view, that view has a nav_next, and its nav_next
\* species id is the species id of the first view.
C5_NavRoundTrip ==
    (ViewReturned /\ ~IsNone(Val(ret).nav_prev)) =>
        \A back \in get_pokemon_data(Val(Val(ret).nav_prev).identifier) :
            /\ ~IsNone(back)
            /\ ~IsNone(Val(back).nav_next)
            /\ Val(Val(back).nav_next).dex = Val(ret).dex

\* the Forms of the Species of the returned view
SiblingForms == {p \in PokemonIds : pokemon[p].species_id = Val(ret).dex}

\* C6: the forms list is empty when the Species has exactly one Form, and
\* otherwise holds exactly one entry (slug, default flag) for each Form of
\* the Species, no Form twice.
C6_FormsList ==
    ViewReturned =>
        LET forms == Val(ret).forms
        IN  /\ Cardinality(SiblingForms) = 1 => forms = <<>>
            /\ Cardinality(SiblingForms) # 1 =>
                  /\ Len(forms) = Cardinality(SiblingForms)
                  /\ \A p \in SiblingForms :
                        Cardinality({i \in 1..Len(forms) :
                            /\ forms[i].identifier = pokemon[p].identifier
                            /\ forms[i].is_default = (pokemon[p].is_default = 1)}) = 1

----------------------------------------------------------------------------
(* C3, C4 *)

\* the chain of the Species of the returned view
QueriedChain == pokemon_species[Val(ret).dex].evolution_chain_id
ChainSpecies == {sid \in SpeciesIds : pokemon_species[sid].evolution_chain_id = QueriedChain}
EdgesTo(sid) == {i \in 1..Len(Val(ret).evolutions) : Val(ret).evolutions[i].to.species_id = sid}
RowsOf(sid) == {i \in 1..Len(pokemon_evolution) : pokemon_evolution[i].evolved_species_id = sid}

\* sid is a root: it has no predecessor
IsRoot(sid) == IsNone(pokemon_species[sid].evolves_from_species_id)

EdgesAscending ==
    \A i \in 1..(Len(Val(ret).evolutions) - 1) :
        Val(ret).evolutions[i].to.species_id <= Val(ret).evolutions[i + 1].to.species_id

\* C3 as claimed: every Species of the queried chain is the 'to' of an edge,
\* the edges ascend in 'to' Species id, and the edge of a root has a null
\* 'from'.
C3_Original ==
    (ViewReturned /\ ~IsNone(QueriedChain)) =>
        /\ \A sid \in ChainSpecies : EdgesTo(sid) # {}
        /\ EdgesAscending
        /\ \A sid \in ChainSpecies :
              IsRoot(sid) => \A i \in EdgesTo(sid) : IsNone(Val(ret).evolutions[i].from)

\* C3: every Species of the queried chain is the 'to' of one edge for each
\* of its pokemon_evolution rows, and of none when it has no such row (as a
\* chain root has none); no edge leads to a Species outside the chain; the
\* edges ascend in 'to' Species id; and an edge to a root has a null 'from'.
\* With a NULL or zero chain id there is no edge.
C3_Amended ==
    ViewReturned =>
        /\ (~IsNone(QueriedChain) /\ Val(QueriedChain) # 0) =>
              /\ \A sid \in ChainSpecies :
                    Cardinality(EdgesTo(sid)) = Cardinality(RowsOf(sid))
              /\ \A sid \in SpeciesIds \ ChainSpecies : EdgesTo(sid) = {}
        /\ (IsNone(QueriedChain) \/ Val(QueriedChain) = 0) => Val(ret).evolutions = <<>>
        /\ EdgesAscending
        /\ \A sid \in SpeciesIds :
              IsRoot(sid) => \A i \in EdgesTo(sid) : IsNone(Val(ret).evolutions[i].from)

\* a chain whose root has no edge and one of whose Species has two, the
\* pokemon_evolution rows not being stored in the order of the Species
C3_Witness ==
    /\ ViewReturned
    /\ ~IsNone(QueriedChain)
    /\ \E sid \in ChainSpecies : IsRoot(sid) /\ EdgesTo(sid) = {}
    /\ \E sid \in ChainSpecies : Cardinality(EdgesTo(sid)) = 2
    /\ Len(pokemon_evolution) >= 2
    /\ pokemon_evolution[1].evolved_species_id > pokemon_evolution[2].evolved_species_id

\* the predecessor of a Species of the queried chain inside that chain
ChainPredecessor(sid) ==
    LET ef == pokemon_species[sid].evolves_from_species_id
    IN  IF ~IsNone(ef) /\ Val(ef) \in ChainSpecies THEN {Val(ef)} ELSE {}

\* the Species reached from S by n steps along the relation Step
RECURSIVE Reached(_, _, _)
Reached(Step(_), S, n) ==
    IF n = 0 THEN {}
    ELSE LET next == UNION {Step(sid) : sid \in S}
         IN  next \cup Reached(Step, next, n - 1)

PredecessorsAcyclic ==
    \A sid \in ChainSpecies : sid \notin Reached(ChainPredecessor, {sid}, NSpecies)

\* the Species the edges to sid come from
EdgeFrom(sid) ==
    {Val(Val(ret).evolutions[i].from).species_id :
        i \in {j \in EdgesTo(sid) : ~IsNone(Val(ret).evolutions[j].from)}}

NoEdgeCycle ==
    \A sid \in SpeciesIds : sid \notin Reached(EdgeFrom, {sid}, NSpecies)

\* C4 as claimed: with acyclic predecessors the edges form a tree: no Species
\* is the 'to' of more than one edge, a root has at most one edge with a null
\* 'from', and following 'from' never revisits an edge.
C4_Original ==
    (ViewReturned /\ ~IsNone(QueriedChain) /\ PredecessorsAcyclic) =>
        /\ \A sid \in SpeciesIds : Cardinality(EdgesTo(sid)) <= 1
        /\ NoEdgeCycle

\* C4: with acyclic predecessors the Species of the edges form a forest: all
\* edges to one Species come from the same Species, or all have a null 'from'
\* (a Species is the 'to' of as many edges as it has pokemon_evolution rows,
\* so of more than one when it has several), and following 'from' from any
\* edge never comes back to a Species already passed.
C4_Amended ==
    (ViewReturned /\ ~IsNone(QueriedChain) /\ PredecessorsAcyclic) =>
        /\ \A sid \in SpeciesIds :
              \A i, j \in EdgesTo(sid) :
                  Val(ret).evolutions[i].from = Val(ret).evolutions[j].from
        /\ NoEdgeCycle

\* acyclic predecessors, a Species with two edges, and an edge whose 'from'
\* is itself the 'to' of an edge
C4_Witness ==
    /\ ViewReturned
    /\ ~IsNone(QueriedChain)
    /\ PredecessorsAcyclic
    /\ \E sid \in SpeciesIds : Cardinality(EdgesTo(sid)) = 2
    /\ \E sid \in SpeciesIds : \E t \in EdgeFrom(sid) : EdgeFrom(t) # {}

----------------------------------------------------------------------------
(* C10 *)

\* the alphabetical rank of the location and version names of the dataset
LocationRank(name) ==
    IF name = L_dreamyard THEN 1
    ELSE IF name = L_pinwheel THEN 2
    ELSE IF name = L_route1 THEN 3
    ELSE IF name = L_route10 THEN 4
    ELSE IF name = L_route2 THEN 5
    ELSE 6
VersionRank(name) == IF name = V_black THEN 1 ELSE 2

\* C10: every entry of encounters has at most 5 locations, pairwise distinct
\* and in ascending alphabetical order; no version has two entries; and the
\* entries are in ascending alphabetical order of version.
C10_Encounters ==
    ViewReturned =>
        LET enc == Val(ret).encounters
        IN  /\ \A n \in 1..Len(enc) :
                  /\ Len(enc[n].locations) <= 5
                  /\ \A i, j \in 1..Len(enc[n].locations) :
                        i < j => LocationRank(enc[n].locations[i])
                                    < LocationRank(enc[n].locations[j])
            /\ \A m, n \in 1..Len(enc) :
                  m < n => VersionRank(enc[m].version) < VersionRank(enc[n].version)

\* more rows than the query fetches, six locations of one version among
\* them: that version is returned with five, after the other version
C10_Witness ==
    /\ ViewReturned
    /\ BagSize(encounter_rows[1], EncPairs) > 40
    /\ \A loc \in LocationNames : encounter_rows[1][<<V_white, loc>>] > 0
    /\ Len(Val(ret).encounters) = 2
    /\ Len(Val(ret).encounters[2].locations) = 5
    /\ Val(ret).encounters[2].locations[5] = L_route2

----------------------------------------------------------------------------
(* Inputs of the stat loop *)

\* largest raw base stat drawn
MaxBaseStat == 255

InitStat ==
    /\ DefaultCreatures /\ DefaultSpeciesTables /\ DefaultOthers
    /\ type_efficacy = DefaultEfficacy
    /\ encounter_rows = DefaultEncounters
    /\ call = NoCall
    /\ ret = None
    /\ NoRequests

NormalizeStat ==
    /\ call = NoCall
    /\ \E stat_id \in {1, NStats}, base_val \in 0..MaxBaseStat :
        /\ call' = [fn |-> "stat_entry", arg |-> StatRow(stat_id, base_val)]
        /\ ret' = StatEntry(StatRow(stat_id, base_val), <<0, 255>>)
    /\ UNCHANGED <<dataset, requests, connections>>

NextStat == NormalizeStat \/ Return

SpecStat == InitStat /\ [][NextStat]_vars

\* clamp(x, 5, 100)
Clamp5to100(x) == IF x < 5 THEN 5 ELSE IF x > 100 THEN 100 ELSE x

\* C7 as claimed: percent = clamp(round(value / 180 * 100), 5, 100), within
\* [5, 100], and the emitted value is the raw value.
C7_Original ==
    call.fn = "stat_entry" =>
        /\ ret.percent = Clamp5to100(RoundDiv(call.arg.base_stat * 100, 180))
        /\ ret.percent >= 5 /\ ret.percent <= 100
        /\ ret.value = call.arg.base_stat

\* C7: for every non-negative raw base stat value the visual percent equals
\* clamp(floor(value / 180 * 100), 5, 100) (the quotient is truncated, not
\* rounded), is within [5, 100], and the emitted value is the raw value.
C7_Amended ==
    call.fn = "stat_entry" =>
        /\ \E q \in 0..(call.arg.base_stat * 100) :
                /\ 180 * q <= call.arg.base_stat * 100
                /\ call.arg.base_stat * 100 < 180 * (q + 1)
                /\ ret.percent = Clamp5to100(q)
        /\ ret.percent >= 5 /\ ret.percent <= 100
        /\ ret.value = call.arg.base_stat

\* a value whose quotient 55.56 rounds to 56 and is emitted as 55
C7_Witness ==
    /\ call.fn = "stat_entry"
    /\ call.arg.base_stat = 100
    /\ ret.percent = 55
    /\ ret.value = 100

----------------------------------------------------------------------------
(* C2, C9 *)

\* the distinct defending type ids of the call
DefendingIds == {call.arg[i].id : i \in 1..Len(call.arg)}

\* the product of the factors of attacking type atk against the defending
\* types, a missing entry counting 100: the numerator over 100 ^ |targets|
RECURSIVE RecomputedNumerator(_, _)
RecomputedNumerator(atk, targets) ==
    IF targets = {} THEN 1
    ELSE LET tgt == CHOOSE t \in targets : TRUE
             pct == IF IsNone(type_efficacy[<<atk, tgt>>]) THEN 100
                    ELSE Val(type_efficacy[<<atk, tgt>>])
         IN  pct * RecomputedNumerator(atk, targets \ {tgt})

RecomputedDenominator == 100 ^ Cardinality(DefendingIds)

Listed(list, atk) == \E i \in 1..Len(list) : list[i].identifier = TypeRow(atk).identifier

MatchupsReturned ==
    /\ call.fn = "compute_type_matchups"
    /\ Len(call.arg) \in {1, 2}

WeakResistConsistent(atk) ==
    LET p == RecomputedNumerator(atk, DefendingIds)
        d == RecomputedDenominator
    IN  /\ Listed(ret.weak, atk) => 100 * p > 101 * d
        /\ Listed(ret.resist, atk) => 100 * p < 99 * d
        /\ ~(Listed(ret.weak, atk) /\ Listed(ret.resist, atk))
        /\ ~(Listed(ret.weak, atk) /\ Listed(ret.immune, atk))
        /\ ~(Listed(ret.resist, atk) /\ Listed(ret.immune, atk))

\* C2 as claimed: weak only if the product is > 1.01, resist only if it is
\* < 0.99, immune only if it is exactly 0, and no type in two lists.
C2_Original ==
    MatchupsReturned =>
        \A atk \in TypeIds :
            /\ WeakResistConsistent(atk)
            /\ Listed(ret.immune, atk) => RecomputedNumerator(atk, DefendingIds) = 0

\* C2: an attacking type is in weak only if the recomputed product of its
\* factors is > 1.01, in resist only if it is < 0.99, in immune only if the
\* product rounds to 0.00 (it is at most 0.005), and no attacking type is in
\* more than one of the three lists.
C2_Amended ==
    MatchupsReturned =>
        \A atk \in TypeIds :
            /\ WeakResistConsistent(atk)
            /\ Listed(ret.immune, atk) =>
                    200 * RecomputedNumerator(atk, DefendingIds) <= RecomputedDenominator

\* two defending types; one attacking type is immune with a product that is
\* not 0, one is weak and one resisted
C2_Witness ==
    /\ MatchupsReturned
    /\ Len(call.arg) = 2
    /\ \E atk \in TypeIds :
            Listed(ret.immune, atk) /\ RecomputedNumerator(atk, DefendingIds) # 0
    /\ ret.weak # <<>>
    /\ ret.resist # <<>>

\* C9 as claimed: weak strictly descending and resist strictly ascending by
\* multiplier.
C9_Original ==
    MatchupsReturned =>
        /\ \A i \in 1..(Len(ret.weak) - 1) :
                ret.weak[i].multiplier > ret.weak[i + 1].multiplier
        /\ \A i \in 1..(Len(ret.resist) - 1) :
                ret.resist[i].multiplier < ret.resist[i + 1].multiplier

\* C9: weak is sorted by multiplier descending and resist ascending, entries
\* of equal multiplier being adjacent: of two consecutive entries of weak the
\* earlier multiplier is greater or equal, of resist smaller or equal.
C9_Amended ==
    MatchupsReturned =>
        /\ \A i \in 1..(Len(ret.weak) - 1) :
                ret.weak[i].multiplier >= ret.weak[i + 1].multiplier
        /\ \A i \in 1..(Len(ret.resist) - 1) :
                ret.resist[i].multiplier <= ret.resist[i + 1].multiplier

\* weak holds a strict step followed by two entries of equal multiplier,
\* found by the loop in another order
C9_Witness ==
    /\ MatchupsReturned
    /\ Len(ret.weak) >= 3
    /\ ret.weak[1].multiplier > ret.weak[2].multiplier
    /\ ret.weak[2].multiplier = ret.weak[3].multiplier
    /\ ret.weak[1].identifier # TypeRow(1).identifier

----------------------------------------------------------------------------
(* C8 *)

\* the texts the claim expects for the values the rows are drawn from
ExpectedLevelText(n) ==
    IF n = 7 THEN <<"L","e","v","e","l"," ","7">>
    ELSE <<"L","e","v","e","l"," ","1","6">>
ExpectedTimeText(t) ==
    IF t = S_day THEN <<"D","a","y">> ELSE <<"N","i","g","h","t">>
ExpectedTriggerText(t) ==
    IF t = S_levelup THEN <<"L","e","v","e","l"," ","U","p">>
    ELSE <<"T","r","a","d","e">>

\* the clause of each of the six trigger fields, None for a field that is
\* not present (NULL, zero or empty), in the claim's fixed order
ExpectedClauses(row) ==
    << IF TruthyNum(row.minimum_level)
          THEN Some(ExpectedLevelText(Val(row.minimum_level))) ELSE None,
       IF TruthyStr(row.item_name)
          THEN Some(<<"U","s","e"," ">> \o Val(row.item_name)) ELSE None,
       IF TruthyStr(row.held_item_name)
          THEN Some(<<"H","o","l","d","i","n","g"," ">> \o Val(row.held_item_name)) ELSE None,
       IF TruthyNum(row.minimum_happiness)
          THEN Some(<<"H","i","g","h"," ","f","r","i","e","n","d","s","h","i","p">>) ELSE None,
       IF TruthyStr(row.known_move_name)
          THEN Some(<<"K","n","o","w","s"," ">> \o Val(row.known_move_name)) ELSE None,
       IF TruthyStr(row.time_of_day)
          THEN Some(ExpectedTimeText(Val(row.time_of_day))) ELSE None >>

RECURSIVE ConcatClauses(_, _)
ConcatClauses(cl, first) ==
    IF cl = <<>> THEN <<>>
    ELSE IF IsNone(Head(cl)) THEN ConcatClauses(Tail(cl), first)
    ELSE (IF first THEN <<>> ELSE <<",", " ">>) \o Val(Head(cl))
         \o ConcatClauses(Tail(cl), FALSE)

AnyClause(row) == \E i \in 1..6 : ~IsNone(ExpectedClauses(row)[i])

\* C8: describe_evo_step returns the comma-separated clauses of all present
\* trigger fields (present = not NULL, not zero, not empty) in the order
\* level, item, held item, happiness, known move, time of day; with no
\* field present it returns the title-cased trigger kind, and the empty text
\* when there is no trigger kind either.
C8_ConditionIsAdditive ==
    call.fn = "describe_evo_step" =>
        LET row == call.arg
        IN  /\ AnyClause(row) => ret = ConcatClauses(ExpectedClauses(row), TRUE)
            /\ (~AnyClause(row) /\ TruthyStr(row.trigger_identifier))
                    => ret = ExpectedTriggerText(Val(row.trigger_identifier))
            /\ (~AnyClause(row) /\ ~TruthyStr(row.trigger_identifier))
                    => ret = <<>>

\* a row with a minimum level and a minimum happiness has been described
C8_Witness ==
    /\ call.fn = "describe_evo_step"
    /\ call.arg.minimum_level = Some(16)
    /\ call.arg.minimum_happiness = Some(220)
    /\ call.arg.trigger_identifier = Some(S_levelup)
    /\ ret = <<"L","e","v","e","l"," ","1","6",",", " ",
               "H","i","g","h"," ","f","r","i","e","n","d","s","h","i","p">>

----------------------------------------------------------------------------
(* Inputs of the moves query, and C11 *)

\* the pokemon_moves rows drawn: of the first Form for Black & White and
\* level-up (two at level 1, two at level 7, one move at both levels), of the
\* first Form for another version group and for another method, and of the
\* second Form. No two rows share Form, version group, method, move and
\* level, which is the primary key of the table.
MoveCandidates ==
    { MoveRow(1, BW_VERSION_GROUP_ID, LEVELUP_METHOD_ID, 1, M_tackle, Some(<<"T","a","c","k","l","e">>)),
      MoveRow(1, BW_VERSION_GROUP_ID, LEVELUP_METHOD_ID, 1, M_growl, None),
      MoveRow(1, BW_VERSION_GROUP_ID, LEVELUP_METHOD_ID, 7, M_growl, None),
      MoveRow(1, BW_VERSION_GROUP_ID, LEVELUP_METHOD_ID, 7, M_tailwhip, None),
      MoveRow(1, BW_VERSION_GROUP_ID + 1, LEVELUP_METHOD_ID, 3, M_growl, None),
      MoveRow(1, BW_VERSION_GROUP_ID, LEVELUP_METHOD_ID + 1, 0, M_tackle, None),
      MoveRow(2, BW_VERSION_GROUP_ID, LEVELUP_METHOD_ID, 1, M_tackle, None) }

MaxMoveRows == 4

\* the tables of at most MaxMoveRows of these rows, in every order
MoveTables ==
    UNION {{f \in [1..n -> MoveCandidates] : \A i, j \in 1..n : i # j => f[i] # f[j]} :
              n \in 0..MaxMoveRows}

InitMoves ==
    /\ DefaultCreatures /\ DefaultSpeciesTables
    /\ pokemon_types = DefaultTypes
    /\ type_efficacy = DefaultEfficacy
    /\ encounter_rows = DefaultEncounters
    /\ pokemon_moves \in MoveTables
    /\ call = NoCall
    /\ ret = None
    /\ NoRequests

SpecMoves == InitMoves /\ [][NextView]_vars

\* the rows of the table that the claim lets into the list of the returned
\* view: of the Form of the view, for version group 11 and method 1
MatchingMoveRows ==
    {i \in 1..Len(pokemon_moves) :
        /\ \E p \in MatchedForms : pokemon_moves[i].pokemon_id = p
        /\ pokemon_moves[i].version_group_id = 11
        /\ pokemon_moves[i].pokemon_move_method_id = 1}

\* the entry of the list for row i: the level of the row and the display name
\* of its move
MoveShown(i) ==
    [name |-> Title(ReplaceHyphen(IF IsNone(pokemon_moves[i].move_name)
                                   THEN pokemon_moves[i].move_identifier
                                   ELSE Val(pokemon_moves[i].move_name))),
     level |-> pokemon_moves[i].level]

\* row i does not come after row j: lower level, or the same level and an
\* identifier that is not greater
NotAfter(i, j) ==
    \/ pokemon_moves[i].level < pokemon_moves[j].level
    \/ /\ pokemon_moves[i].level = pokemon_moves[j].level
       /\ ~TextLess(pokemon_moves[j].move_identifier, pokemon_moves[i].move_identifier)

\* C11: the moves list of a returned view holds one entry for each move row
\* of the Form whose version group is 11 and whose method is level-up, and
\* no other entry, ordered by level ascending and then by move identifier
\* ascending.
C11_Moves ==
    ViewReturned =>
        LET moves == Val(ret).moves
            K == MatchingMoveRows
        IN  /\ Len(moves) = Cardinality(K)
            /\ \E f \in [1..Len(moves) -> K] :
                 /\ \A m, n \in 1..Len(moves) : m # n => f[m] # f[n]
                 /\ \A n \in 1..Len(moves) : moves[n] = MoveShown(f[n])
                 /\ \A m, n \in 1..Len(moves) : m < n => NotAfter(f[m], f[n])

\* a view returned with three moves, two of them of the same level, from a
\* table that stores the higher level first and holds a row of the Form for
\* another method
C11_Witness ==
    /\ ViewReturned
    /\ Len(Val(ret).moves) = 3
    /\ Val(ret).moves[1].level = Val(ret).moves[2].level
    /\ Val(ret).moves[1].name # Val(ret).moves[2].name
    /\ pokemon_moves[1].level > pokemon_moves[Len(pokemon_moves)].level
    /\ \E i \in 1..Len(pokemon_moves) :
         /\ pokemon_moves[i].pokemon_id = Val(ret).dex
         /\ pokemon_moves[i].pokemon_move_method_id # LEVELUP_METHOD_ID

----------------------------------------------------------------------------
(* get_pokemon_data step by step: the calls that the threads of the server  *)
(* run side by side, one step for get_db() and one for each fetch           *)

\* one connection kept by the module and handed to every call
get_db_shared(t) == 0

\* get_db(): sqlite3.connect opens a connection of its own for call t
get_db(t) == t

\* the fetches of get_pokemon_data, in the order the code issues them
FetchOrder ==
    <<"get_pokemon_basic", "stats", "mins_maxs", "types", "species", "evolution",
      "moves", "forms", "type_matchups", "encounters", "nav_prev", "nav_next", "close">>

FetchAfter(pc) ==
    FetchOrder[1 + CHOOSE n \in 1..(Len(FetchOrder) - 1) : FetchOrder[n] = pc]

\* the fetches whose rows the model takes into the view where it is built
OtherFetches == {"mins_maxs", "types", "moves", "type_matchups", "nav_prev", "nav_next"}

\* the identifiers asked of the server: a Form with its stat rows, a Form
\* without stat rows, and an identifier unknown to the dataset
ServerIdentifiers ==
    {pokemon[1].identifier, pokemon[2].identifier, <<"q","w","e","r","t","y">>}

\* the connection of call t is open; sqlite3 raises ProgrammingError on a
\* cursor whose connection was closed
ConnOpen(t) == Val(requests[t].conn) \in connections

\* an exception leaves get_pokemon_data: no statement of it runs after the
\* one that raised, conn.close() included
Raised(t, error) ==
    /\ requests' = [requests EXCEPT ![t] =
                      [@ EXCEPT !.pc = "done",
                                !.result = Some([raised |-> error, value |-> None])]]
    /\ UNCHANGED connections

\* `conn.close()` and `return data`
Returned(t, data) ==
    /\ requests' = [requests EXCEPT ![t] =
                      [@ EXCEPT !.pc = "done",
                                !.result = Some([raised |-> "", value |-> data])]]
    /\ connections' = connections \ {Val(requests[t].conn)}

\* the fetch returned and the call goes on to its next fetch
Fetched(t, frame) ==
    /\ requests' = [requests EXCEPT ![t] = [frame EXCEPT !.pc = FetchAfter(requests[t].pc)]]
    /\ UNCHANGED connections

\* `conn = get_db()` of a call for one of the identifiers
GetDb(t) ==
    /\ requests[t].pc = "idle"
    /\ \E identifier \in ServerIdentifiers :
         requests' = [requests EXCEPT ![t] =
                        [@ EXCEPT !.pc = "get_pokemon_basic",
                                  !.identifier = Some(identifier),
                                  !.conn = Some(get_db(t))]]
    /\ connections' = connections \cup {get_db(t)}
    /\ UNCHANGED <<dataset, call, ret>>

\* sqlite3.connect raises: the call has no connection
ConnectFailure(t) ==
    /\ requests[t].pc = "idle"
    /\ \E identifier \in ServerIdentifiers :
         requests' = [requests EXCEPT ![t] =
                        [@ EXCEPT !.pc = "done",
                                  !.identifier = Some(identifier),
                                  !.result = Some([raised |-> "OperationalError", value |-> None])]]
    /\ UNCHANGED <<dataset, call, ret, connections>>

\* the store fails during a fetch of call t: execute() raises
StoreFailure(t) ==
    /\ requests[t].pc \notin {"idle", "close", "done"}
    /\ Raised(t, "OperationalError")
    /\ UNCHANGED <<dataset, call, ret>>

\* `base = get_pokemon_basic(conn, identifier)` and `if not base:`
FetchBasic(t) ==
    /\ requests[t].pc = "get_pokemon_basic"
    /\ IF ~ConnOpen(t) THEN Raised(t, "ProgrammingError")
       ELSE \E b \in get_pokemon_basic(Val(requests[t].identifier)) :
              IF IsNone(b) THEN Returned(t, None)
              ELSE Fetched(t, [requests[t] EXCEPT !.base = b])
    /\ UNCHANGED <<dataset, call, ret>>

\* `stat_rows = c.fetchall()` and `if not stat_rows:`
FetchStats(t) ==
    /\ requests[t].pc = "stats"
    /\ IF ~ConnOpen(t) THEN Raised(t, "ProgrammingError")
       ELSE IF NoStats(StatRowsUpTo(Val(requests[t].base).id, NStats)) THEN Returned(t, None)
       ELSE Fetched(t, requests[t])
    /\ UNCHANGED <<dataset, call, ret>>

\* the fetches of the mins and maxs, the types, the moves, the damage factors
\* and the previous and next Species
FetchOther(t) ==
    /\ requests[t].pc \in OtherFetches
    /\ IF ~ConnOpen(t) THEN Raised(t, "ProgrammingError") ELSE Fetched(t, requests[t])
    /\ UNCHANGED <<dataset, call, ret>>

\* the fetch of the Species row, and of the evolution rows `if evo_chain_id:`
FetchSpecies(t) ==
    /\ requests[t].pc = "species"
    /\ IF ~ConnOpen(t) THEN Raised(t, "ProgrammingError")
       ELSE LET evo_chain_id == pokemon_species[Val(requests[t].base).species_id].evolution_chain_id
            IN  IF IsNone(evo_chain_id) \/ Val(evo_chain_id) = 0
                THEN /\ requests' = [requests EXCEPT ![t] = [@ EXCEPT !.pc = "moves"]]
                     /\ UNCHANGED connections
                ELSE Fetched(t, requests[t])
    /\ UNCHANGED <<dataset, call, ret>>

FetchEvolution(t) ==
    /\ requests[t].pc = "evolution"
    /\ IF ~ConnOpen(t) THEN Raised(t, "ProgrammingError")
       ELSE \E ev \in EvolutionEdges(
                        pokemon_species[Val(requests[t].base).species_id].evolution_chain_id) :
              Fetched(t, [requests[t] EXCEPT !.evolution_edges = ev])
    /\ UNCHANGED <<dataset, call, ret>>

FetchForms(t) ==
    /\ requests[t].pc = "forms"
    /\ IF ~ConnOpen(t) THEN Raised(t, "ProgrammingError")
       ELSE \E forms \in FormsLists(Val(requests[t].base).species_id) :
              Fetched(t, [requests[t] EXCEPT !.forms = forms])
    /\ UNCHANGED <<dataset, call, ret>>

FetchEncounters(t) ==
    /\ requests[t].pc = "encounters"
    /\ IF ~ConnOpen(t) THEN Raised(t, "ProgrammingError")
       ELSE \E fetched \in EncounterFetches(encounter_rows[Val(requests[t].base).id]) :
              Fetched(t, [requests[t] EXCEPT !.fetched = fetched])
    /\ UNCHANGED <<dataset, call, ret>>

\* after the last fetch: `conn.close()` and the return of the view
CloseAndReturn(t) ==
    /\ requests[t].pc = "close"
    /\ Returned(t, Some(View(Val(requests[t].base), requests[t].evolution_edges,
                             requests[t].forms, requests[t].fetched)))
    /\ UNCHANGED <<dataset, call, ret>>

\* a data-access step of call t that is no failure of the store
DataAccess(t) ==
    \/ GetDb(t) \/ FetchBasic(t) \/ FetchStats(t) \/ FetchOther(t) \/ FetchSpecies(t)
    \/ FetchEvolution(t) \/ FetchForms(t) \/ FetchEncounters(t)

NextServer ==
    \E t \in Calls :
        DataAccess(t) \/ CloseAndReturn(t) \/ ConnectFailure(t) \/ StoreFailure(t)

\* the joined encounter rows of the first Form on the server: as many rows of
\* one (version, location) as the query fetches and one row of another, so
\* that `LIMIT 40` fetches the second or leaves it out
ServerEncounters ==
    [p \in PokemonIds |->
        [pr \in EncPairs |->
            IF p # 1 THEN 0
            ELSE IF pr = <<V_black, L_route1>> THEN ENCOUNTER_LIMIT
            ELSE IF pr = <<V_white, L_pinwheel>> THEN 1
            ELSE 0]]

\* the dataset of the server: the second Form has no stat rows
InitServer ==
    /\ pokemon = DefaultPokemon
    /\ pokemon_forms = DefaultForms
    /\ pokemon_stats = [p \in PokemonIds |-> IF p = 2 THEN NoStatRows ELSE FullStats(p)]
    /\ pokemon_species = DefaultSpecies
    /\ pokemon_evolution = DefaultEvolution
    /\ DefaultOthers
    /\ type_efficacy = DefaultEfficacy
    /\ encounter_rows = ServerEncounters
    /\ call = NoCall
    /\ ret = None
    /\ NoRequests

SpecServer == InitServer /\ [][NextServer]_vars

----------------------------------------------------------------------------
(* C12, C13 *)

Finished(t) == requests[t].pc = "done"
Outcome(t) == Val(requests[t].result)

\* the connection of call t is open after it
HoldsConnection(t) ==
    /\ ~IsNone(requests[t].conn)
    /\ Val(requests[t].conn) \in connections

\* every finished call either raised the failure of the store that happened
\* in it, or returned one of the values get_pokemon_data returns for its
\* identifier when run alone; and every call that has a data access to make
\* can make it without failure, whatever the other calls did
ResultsAlone ==
    \A t \in Calls :
        /\ Finished(t) =>
              \/ Outcome(t).raised = "OperationalError"
              \/ /\ Outcome(t).raised = ""
                 /\ Outcome(t).value \in get_pokemon_data(Val(requests[t].identifier))
        /\ requests[t].pc \notin {"close", "done"} => ENABLED DataAccess(t)

\* a step writes no table, belongs to one call, and changes neither the
\* frame nor the connection of another call
StepOfOneCall ==
    /\ dataset' = dataset
    /\ \E t \in Calls :
         \A u \in Calls \ {t} :
            /\ requests'[u] = requests[u]
            /\ ~IsNone(requests[u].conn) =>
                  (Val(requests[u].conn) \in connections'
                      <=> Val(requests[u].conn) \in connections)

\* C12: under every interleaving of the steps of the calls, each call returns
\* a result it returns when run alone, no step writes to the dataset or to
\* the frame or connection of another call, and a store failure in one call
\* neither changes the result of another call nor leaves it without a step.
C12_Independent == []ResultsAlone /\ [][StepOfOneCall]_vars

\* a call returned a view although another call had failed at a fetch before
\* the first call made its last fetch, the failed call's connection being
\* still open
C12_Witness ==
    \E t, u \in Calls :
        /\ t # u
        /\ Finished(t) /\ Outcome(t).raised = "OperationalError" /\ HoldsConnection(t)
        /\ Finished(u) /\ Outcome(u).raised = "" /\ ~IsNone(Outcome(u).value)

\* C13: the connection a call opened is closed when the call has ended,
\* whether it returned a view, returned None or raised a store failure, so
\* that no connection is open once every call that was started has ended.
C13_ConnectionsClosed ==
    /\ \A t \in Calls : Finished(t) => ~HoldsConnection(t)
    /\ (\A t \in Calls : requests[t].pc \in {"idle", "done"}) => connections = {}

\* what the code keeps of C13: a call that returned, a view or None, has
\* closed its connection
ClosedOnReturn ==
    \A t \in Calls :
        (Finished(t) /\ Outcome(t).raised = "") => ~HoldsConnection(t)

\* a store failure raised by a fetch has ended a call
RaisedAtFetch ==
    \E t \in Calls :
        /\ Finished(t)
        /\ Outcome(t).raised = "OperationalError"
        /\ ~IsNone(requests[t].conn)

====
